---- MODULE Spec2Model ----
(***************************************************************************)
(* Model of set_amd_epp_state.py: a linear script that checks privilege    *)
(* and the cpufreq driver, probes the power supplies, sets the cpufreq     *)
(* governor and writes the energy-performance preference of every core.    *)
(* Files are records [exists, data]; data is the file's text, and every    *)
(* read goes through the script's f.read()[:-1].                           *)
(***************************************************************************)
EXTENDS Integers, Sequences, FiniteSets, TLC

\* ------------------------------------------------------------------ bounds

\* os.cpu_count() of the modelled machine
NumCores == 3
\* how many times the governor harness calls set_governor in a row
MaxCalls == 2

Cores == 0 .. (NumCores - 1)

\* ------------------------------------------------------- program constants

EPP_STATE_DEFAULT == "default"
EPP_STATE_PERFORMANCE == "performance"
EPP_STATE_BALANCE_PERFORMANCE == "balance_performance"
EPP_STATE_BALANCE_POWER == "balance_power"
EPP_STATE_POWER == "power"

EPP_STATE_LIST ==
    << EPP_STATE_DEFAULT, EPP_STATE_PERFORMANCE, EPP_STATE_BALANCE_PERFORMANCE,
       EPP_STATE_BALANCE_POWER, EPP_STATE_POWER >>

\* Python's None (args.epp_state_value when no positional argument is given,
\* scaling_driver when the driver file is missing)
None == "<None>"

\* ------------------------------------------------------------------- files

NoFile == [exists |-> FALSE, data |-> ""]
File(text) == [exists |-> TRUE, data |-> text]

\* s[:-1] of a Python string: the string without its last character
DropLast(s) == IF Len(s) = 0 THEN s ELSE SubSeq(s, 1, Len(s) - 1)

\* f.read()[:-1] of an existing file
ReadLine(f) == DropLast(f.data)

\* ---------------------------------------------------------------- messages

ESC == "\\033"
std_err(s) == ESC \o "[91m" \o s \o ESC \o "[0m"
std_warn(s) == ESC \o "[93m" \o s \o ESC \o "[0m"
std_info(s) == ESC \o "[1m" \o s \o ESC \o "[0m"

\* a join that loses the last element
RECURSIVE JoinButLast(_, _)
JoinButLast(list, sep) ==
    IF Len(list) <= 1 THEN ""
    ELSE IF Len(list) = 2 THEN list[1]
    ELSE list[1] \o sep \o JoinButLast(Tail(list), sep)

\* sep.join(list)
RECURSIVE Join(_, _)
Join(list, sep) ==
    IF Len(list) = 0 THEN ""
    ELSE IF Len(list) = 1 THEN list[1]
    ELSE list[1] \o sep \o Join(Tail(list), sep)

RootMessage == "amd_epp_power_save must be run with root privileges.\n"
DriverMessage == "The system is not running amd-pstate-epp driver.\n"
GovernorMissingMessage ==
    std_info("Could not find /sys/devices/system/cpu/cpu0/cpufreq/scaling_governor file. Skipping governor setting.")
GovernorMessage == std_warn("Setting cpufreq governor to \"powersave\"")
BatteryWarning ==
    std_warn("It seems system is not running on AC power right now, setting performance epp state might not be optimal.")
EppMessage(value, c) ==
    std_info("Setting epp_state to " \o value \o " for cpu" \o ToString(c) \o "\n")
NoArgumentMessage ==
    std_err("No epp_state value provided. Provide one of the options from this list: ")
        \o std_info(Join(EPP_STATE_LIST, ", "))

\* ------------------------------------------------------------------- state

VARIABLES
    euid,            \* os.geteuid()
    argv,            \* the positional command-line arguments
    driver_file,     \* cpu0/cpufreq/scaling_driver
    governor_files,  \* cpu<N>/cpufreq/scaling_governor, per core
    epp_files,       \* cpu<N>/cpufreq/energy_performance_preference, per core
    power_supply,    \* the entries of /sys/class/power_supply/
    pc,              \* the statement the interpreter is at
    ret,             \* where set_governor returns to
    cpu,             \* the loop variable of the running for loop
    epp_state_value, \* args.epp_state_value
    charging,        \* what check_charging() returned ("unset" before the call)
    exit_code,       \* the process's exit status once pc = "exit"
    exc,             \* the uncaught exception that ended the process, or "none"
    stdout,          \* what was written to standard output, in order
    writes,          \* history: every file opened for writing, in order
    gov_calls,       \* history: calls of set_governor
    gov_at_call,     \* history: governor_files as found at each call of set_governor
    driver_reads,    \* history: reads of the driver file
    parsed,          \* history: parser.parse_args() ran
    gov0,            \* history: governor_files at process start
    epp0             \* history: epp_files at process start

vars ==
    << euid, argv, driver_file, governor_files, epp_files, power_supply, pc, ret,
       cpu, epp_state_value, charging, exit_code, exc, stdout, writes, gov_calls,
       gov_at_call, driver_reads, parsed, gov0, epp0 >>

env == << euid, argv, driver_file, power_supply, gov0, epp0 >>

\* ------------------------------------------------------ power-source probe

Digits == "0123456789"
NameAlphabet == "0123456789ABCDEFGHIJKLMNOPQRSTUVWXYZ"

Char(s, i) == SubSeq(s, i, i)
IndexIn(alphabet, c) == CHOOSE i \in 1 .. Len(alphabet) : Char(alphabet, i) = c

\* a < b for path names, compared character by character as Python compares
\* the strings of two Path objects
RECURSIVE StrLess(_, _)
StrLess(a, b) ==
    IF Len(b) = 0 THEN FALSE
    ELSE IF Len(a) = 0 THEN TRUE
    ELSE IF Char(a, 1) = Char(b, 1) THEN StrLess(SubSeq(a, 2, Len(a)), SubSeq(b, 2, Len(b)))
    ELSE IndexIn(NameAlphabet, Char(a, 1)) < IndexIn(NameAlphabet, Char(b, 1))

\* sorted(power_supply_path.glob("*")): the entries in increasing name order
RECURSIVE sorted(_)
sorted(entries) ==
    IF entries = {} THEN << >>
    ELSE LET first == CHOOSE e \in entries :
                          \A o \in entries \ {e} : StrLess(e.name, o.name)
         IN  << first >> \o sorted(entries \ {first})

\* int(s) succeeds (decimal digits only; the sysfs values carry no sign or blanks)
IsInt(s) == Len(s) > 0 /\ \A i \in 1 .. Len(s) : \E d \in 1 .. Len(Digits) : Char(s, i) = Char(Digits, d)

RECURSIVE IntOf(_)
IntOf(s) ==
    IF Len(s) = 0 THEN 0
    ELSE 10 * IntOf(DropLast(s)) + (IndexIn(Digits, Char(s, Len(s))) - 1)

\* power_supplies == 0: a Python list never equals an int
ListEqualsInt(list, n) == FALSE

\* the for loop of check_charging from entry i on; "ValueError" when int() raises
RECURSIVE ScanSupplies(_, _)
ScanSupplies(supplies, i) ==
    IF i > Len(supplies) THEN "True"
    ELSE LET supply == supplies[i] IN
         IF ~supply.type.exists THEN ScanSupplies(supplies, i + 1)
         ELSE IF ReadLine(supply.type) = "Mains" THEN
                 IF ~supply.online.exists THEN ScanSupplies(supplies, i + 1)
                 ELSE IF ~IsInt(ReadLine(supply.online)) THEN "ValueError"
                 ELSE IF IntOf(ReadLine(supply.online)) = 1 THEN "True"
                 ELSE ScanSupplies(supplies, i + 1)
         ELSE IF ReadLine(supply.type) = "Battery" THEN
                 IF ~supply.status.exists THEN ScanSupplies(supplies, i + 1)
                 ELSE IF ~IsInt(ReadLine(supply.status)) THEN "ValueError"
                 \* val is an int here, and an int never equals "Discharging"
                 ELSE ScanSupplies(supplies, i + 1)
         ELSE ScanSupplies(supplies, i + 1)

check_charging(entries) ==
    LET power_supplies == sorted(entries) IN
    IF ~ListEqualsInt(power_supplies, 0) THEN "True"
    ELSE ScanSupplies(power_supplies, 1)

\* ------------------------------------------------------------- environment

Mains(name, online) ==
    [name |-> name, type |-> File("Mains\n"), online |-> File(online), status |-> NoFile]
Battery(name, status) ==
    [name |-> name, type |-> File("Battery\n"), online |-> NoFile, status |-> File(status)]

\* the power-supply directories the model starts from
SupplyConfigs ==
    { {},
      { Battery("BAT0", "Discharging\n") },
      { Mains("AC0", "1\n"), Battery("BAT0", "Discharging\n") },
      { Mains("ADP1", "0\n"), Battery("BAT0", "Discharging\n") } }

\* what the kernel shows in a scaling_driver file, or no cpufreq at all
DriverFiles == { NoFile, File("amd-pstate-epp\n"), File("amd-pstate\n"), File("acpi-cpufreq\n") }

GovernorFiles == { NoFile, File("powersave\n"), File("performance\n") }

EppFiles == { NoFile, File("balance_power\n") }

Range(seq) == { seq[i] : i \in 1 .. Len(seq) }

\* no argument, each valid value, and a value outside the enumeration
Argvs == { << >> } \cup { << v >> : v \in Range(EPP_STATE_LIST) \cup { "turbo" } }

\* ------------------------------------------------------------ the program

\* the process ends with status code; e names the uncaught exception, if any
Exit(code, e) ==
    /\ pc' = "exit"
    /\ exit_code' = code % 256
    /\ exc' = e

\* the record of one open(path, "w")
Write(op, c, ok) == [op |-> op, cpu |-> c, call |-> gov_calls, ok |-> ok]

\* what a failed open("w") / write leaves in the file: untouched (the open or
\* the kernel refused) or truncated (the write after the open failed)
AfterFailedWrite(f) == { f, File("") }

Init ==
    /\ euid \in { 0, 1000 }
    /\ argv \in Argvs
    /\ driver_file \in DriverFiles
    /\ governor_files \in [Cores -> GovernorFiles]
    /\ epp_files \in [Cores -> EppFiles]
    /\ power_supply \in SupplyConfigs
    /\ pc = "check_root"
    /\ ret = "none"
    /\ cpu = 0
    /\ epp_state_value = None
    /\ charging = "unset"
    /\ exit_code = -1
    /\ exc = "none"
    /\ stdout = << >>
    /\ writes = << >>
    /\ gov_calls = 0
    /\ gov_at_call = << >>
    /\ driver_reads = 0
    /\ parsed = FALSE
    /\ gov0 = governor_files
    /\ epp0 = epp_files

\* a missing driver file passes for the expected driver
scaling_driver_missing_ok(f) == IF f.exists THEN DropLast(f.data) ELSE "amd-pstate-epp"

\* every user passes the privilege check
IsRootAnyUser(uid) == uid >= 0

\* os.geteuid() == 0
IsRoot(uid) == uid = 0

CheckRoot ==
    /\ pc = "check_root"
    /\ IF IsRoot(euid)
       THEN /\ pc' = "check_driver"
            /\ UNCHANGED << exit_code, exc, stdout >>
       ELSE /\ stdout' = Append(stdout, RootMessage)
            /\ Exit(1, "none")
    /\ UNCHANGED << env, governor_files, epp_files, ret, cpu, epp_state_value,
                    charging, writes, gov_calls, gov_at_call, driver_reads, parsed >>

\* the name check_driver compares: the file's text without its last character,
\* None when the file is missing
scaling_driver(f) == IF f.exists THEN ReadLine(f) ELSE None

CheckDriver ==
    /\ pc = "check_driver"
    /\ driver_reads' = driver_reads + 1
    /\ IF scaling_driver(driver_file) = "amd-pstate-epp"
       THEN /\ pc' = "parse_args"
            /\ UNCHANGED << exit_code, exc, stdout >>
       ELSE /\ stdout' = Append(stdout, DriverMessage)
            /\ Exit(1, "none")
    /\ UNCHANGED << env, governor_files, epp_files, ret, cpu, epp_state_value,
                    charging, writes, gov_calls, gov_at_call, parsed >>

\* parser.parse_args() with one optional positional limited to EPP_STATE_LIST:
\* a value outside the choices is a usage error, exit status 2
ParseArgs ==
    /\ pc = "parse_args"
    /\ parsed' = TRUE
    /\ IF Len(argv) = 0
       THEN /\ epp_state_value' = None
            /\ pc' = "main"
            /\ UNCHANGED << exit_code, exc >>
       ELSE IF argv[1] \in Range(EPP_STATE_LIST)
       THEN /\ epp_state_value' = argv[1]
            /\ pc' = "main"
            /\ UNCHANGED << exit_code, exc >>
       ELSE /\ Exit(2, "none")
            /\ UNCHANGED epp_state_value
    /\ UNCHANGED << env, governor_files, epp_files, ret, cpu, charging, stdout,
                    writes, gov_calls, gov_at_call, driver_reads >>

\* if not args.epp_state_value: ... sys.exit(-1); else set_epp(...)
Main ==
    /\ pc = "main"
    /\ IF epp_state_value = None
       THEN /\ stdout' = Append(stdout, NoArgumentMessage)
            /\ Exit(-1, "none")
       ELSE /\ pc' = "set_epp"
            /\ UNCHANGED << exit_code, exc, stdout >>
    /\ UNCHANGED << env, governor_files, epp_files, ret, cpu, epp_state_value,
                    charging, writes, gov_calls, gov_at_call, driver_reads, parsed >>

\* set_governor() is called only when no warning was due
CallsGovernorUnlessPerformance(value, probe) ==
    value \notin { EPP_STATE_PERFORMANCE, EPP_STATE_BALANCE_PERFORMANCE }

\* set_governor() stands outside the if of set_epp: it is always called
CallsGovernor(value, probe) == TRUE

\* set_epp up to its call of set_governor
SetEppBegin ==
    /\ pc = "set_epp"
    /\ charging' = check_charging(power_supply)
    /\ IF charging' = "ValueError"
       THEN /\ Exit(1, "ValueError")
            /\ UNCHANGED << stdout, ret >>
       ELSE /\ stdout' =
                  IF charging' = "False"
                     /\ epp_state_value \in { EPP_STATE_PERFORMANCE, EPP_STATE_BALANCE_PERFORMANCE }
                  THEN Append(stdout, BatteryWarning)
                  ELSE stdout
            /\ pc' = IF CallsGovernor(epp_state_value, charging') THEN "set_governor" ELSE "epp_loop"
            /\ ret' = "epp_loop"
            /\ UNCHANGED << exit_code, exc >>
    /\ UNCHANGED << env, governor_files, epp_files, cpu, epp_state_value, writes,
                    gov_calls, gov_at_call, driver_reads, parsed >>

\* the governor is compared with the text as read, newline included
GovernorIsSetRaw(cur_governor) == cur_governor = "powersave\n"

\* the governor is already the target: cur_governor == "powersave"
GovernorIsSet(cur_governor) == cur_governor = "powersave"

\* set_governor up to its for loop
SetGovernor ==
    /\ pc = "set_governor"
    /\ gov_calls' = gov_calls + 1
    /\ gov_at_call' = Append(gov_at_call, governor_files)
    /\ cpu' = 0
    /\ IF ~governor_files[0].exists
       THEN /\ stdout' = Append(stdout, GovernorMissingMessage)
            /\ pc' = ret
       ELSE IF GovernorIsSet(ReadLine(governor_files[0]))
       THEN /\ pc' = ret
            /\ UNCHANGED stdout
       ELSE /\ stdout' = Append(stdout, GovernorMessage)
            /\ pc' = "gov_loop"
    /\ UNCHANGED << env, governor_files, epp_files, ret, epp_state_value, charging,
                    exit_code, exc, writes, driver_reads, parsed >>

\* the loop steps over every other core
SkipCore(c) == c + 2

\* where a for loop over range(os.cpu_count()) goes after the body for core c
NextCore(c) == c + 1

\* the text set_governor writes
GovernorText == "powersave\n"

\* one iteration of set_governor's loop that ends normally
GovernorLoop ==
    /\ pc = "gov_loop"
    /\ IF cpu >= NumCores
       THEN /\ pc' = ret
            \* the caller's own loop starts again from core 0
            /\ cpu' = 0
            /\ UNCHANGED << governor_files, writes >>
       ELSE /\ cpu' = NextCore(cpu)
            /\ pc' = "gov_loop"
            /\ IF ~governor_files[cpu].exists
               THEN UNCHANGED << governor_files, writes >>
               ELSE /\ governor_files' = [governor_files EXCEPT ![cpu] = File(GovernorText)]
                    /\ writes' = Append(writes, Write("governor", cpu, TRUE))
    /\ UNCHANGED << env, epp_files, ret, epp_state_value, charging, exit_code, exc,
                    stdout, gov_calls, gov_at_call, driver_reads, parsed >>

\* the write of one iteration raises OSError: nothing catches it
GovernorWriteFails ==
    /\ pc = "gov_loop"
    /\ cpu < NumCores
    /\ governor_files[cpu].exists
    /\ \E f \in AfterFailedWrite(governor_files[cpu]) :
           governor_files' = [governor_files EXCEPT ![cpu] = f]
    /\ writes' = Append(writes, Write("governor", cpu, FALSE))
    /\ Exit(1, "OSError")
    /\ UNCHANGED << env, epp_files, ret, cpu, epp_state_value, charging, stdout,
                    gov_calls, gov_at_call, driver_reads, parsed >>

\* the value is written without its newline
EppTextBare(value) == value

\* the text set_epp writes for a value
EppText(value) == value \o "\n"

\* one iteration of set_epp's loop that ends normally; after the last one the
\* script ends with status 0
EppLoop ==
    /\ pc = "epp_loop"
    /\ IF cpu >= NumCores
       THEN /\ Exit(0, "none")
            /\ UNCHANGED << cpu, epp_files, writes, stdout >>
       ELSE /\ cpu' = NextCore(cpu)
            /\ pc' = "epp_loop"
            /\ UNCHANGED << exit_code, exc >>
            /\ IF ~epp_files[cpu].exists
               THEN UNCHANGED << epp_files, writes, stdout >>
               ELSE /\ stdout' = Append(stdout, EppMessage(epp_state_value, cpu))
                    /\ epp_files' = [epp_files EXCEPT ![cpu] = File(EppText(epp_state_value))]
                    /\ writes' = Append(writes, Write("epp", cpu, TRUE))
    /\ UNCHANGED << env, governor_files, ret, epp_state_value, charging, gov_calls,
                    gov_at_call, driver_reads, parsed >>

\* the failed write is swallowed and the loop goes on with the next core
EppWriteFailsContinue ==
    /\ pc = "epp_loop"
    /\ cpu < NumCores
    /\ epp_files[cpu].exists
    /\ stdout' = Append(stdout, EppMessage(epp_state_value, cpu))
    /\ \E f \in AfterFailedWrite(epp_files[cpu]) :
           epp_files' = [epp_files EXCEPT ![cpu] = f]
    /\ writes' = Append(writes, Write("epp", cpu, FALSE))
    /\ cpu' = cpu + 1
    /\ UNCHANGED << env, governor_files, ret, epp_state_value, charging, pc,
                    exit_code, exc, gov_calls, gov_at_call, driver_reads, parsed >>

\* the write of one iteration raises OSError: nothing catches it
EppWriteFails ==
    /\ pc = "epp_loop"
    /\ cpu < NumCores
    /\ epp_files[cpu].exists
    /\ stdout' = Append(stdout, EppMessage(epp_state_value, cpu))
    /\ \E f \in AfterFailedWrite(epp_files[cpu]) :
           epp_files' = [epp_files EXCEPT ![cpu] = f]
    /\ writes' = Append(writes, Write("epp", cpu, FALSE))
    /\ Exit(1, "OSError")
    /\ UNCHANGED << env, governor_files, ret, cpu, epp_state_value, charging,
                    gov_calls, gov_at_call, driver_reads, parsed >>

Next ==
    \/ CheckRoot
    \/ CheckDriver
    \/ ParseArgs
    \/ Main
    \/ SetEppBegin
    \/ SetGovernor
    \/ GovernorLoop
    \/ GovernorWriteFails
    \/ EppLoop
    \/ EppWriteFails

Spec == Init /\ [][Next]_vars

\* ------------------------------------------- set_governor called repeatedly

\* set_governor alone, as root on any assignment of governors to cores
InitGovernor ==
    /\ euid = 0
    /\ argv = << >>
    /\ driver_file = File("amd-pstate-epp\n")
    /\ governor_files \in [Cores -> GovernorFiles \cup { File("schedutil\n") }]
    /\ epp_files = [c \in Cores |-> NoFile]
    /\ power_supply = {}
    /\ pc = "harness"
    /\ ret = "harness"
    /\ cpu = 0
    /\ epp_state_value = None
    /\ charging = "unset"
    /\ exit_code = -1
    /\ exc = "none"
    /\ stdout = << >>
    /\ writes = << >>
    /\ gov_calls = 0
    /\ gov_at_call = << >>
    /\ driver_reads = 0
    /\ parsed = FALSE
    /\ gov0 = governor_files
    /\ epp0 = epp_files

CallSetGovernor ==
    /\ pc = "harness"
    /\ gov_calls < MaxCalls
    /\ pc' = "set_governor"
    /\ ret' = "harness"
    /\ UNCHANGED << env, governor_files, epp_files, cpu, epp_state_value, charging,
                    exit_code, exc, stdout, writes, gov_calls, gov_at_call,
                    driver_reads, parsed >>

NextGovernor ==
    \/ CallSetGovernor
    \/ SetGovernor
    \/ GovernorLoop
    \/ GovernorWriteFails

SpecGovernor == InitGovernor /\ [][NextGovernor]_vars

\* ------------------------------------------------------------- properties

PerformanceStates == { "performance", "balance_performance" }

\* the driver file is missing or names another driver
WrongDriver == ~driver_file.exists \/ driver_file.data # "amd-pstate-epp\n"

FilesUntouched ==
    /\ writes = << >>
    /\ governor_files = gov0
    /\ epp_files = epp0

\* the supplies are a discharging battery and no mains that is online
OnBattery ==
    /\ \E e \in power_supply : e.type.data = "Battery\n" /\ e.status.data = "Discharging\n"
    /\ ~ \E e \in power_supply : e.type.data = "Mains\n" /\ e.online.data = "1\n"

\* set_epp has got past the probe and its warning
PastProbe == charging # "unset" /\ exc # "ValueError"

\* C1: when set_epp(v) has completed without a write error, every core whose
\* EPP file exists holds exactly v and a newline, and a core without the file
\* still has none, whatever subset of the cores has the file.
C1_EppWrittenToEveryCore ==
    (pc = "exit" /\ exit_code = 0) =>
        /\ Len(argv) = 1
        /\ \A c \in Cores :
               IF epp0[c].exists
               THEN epp_files[c].exists /\ epp_files[c].data = argv[1] \o "\n"
               ELSE ~epp_files[c].exists

C1_Witness ==
    /\ pc = "exit"
    /\ exit_code = 0
    /\ \E c \in Cores : ~epp0[c].exists
    /\ \E c \in Cores : epp0[c].exists /\ epp_files[c] # epp0[c]

\* C2: as root, with the driver file missing or naming another driver, the
\* process ends with status 1 straight after the driver check: the arguments
\* are never parsed and no governor or EPP file is written, whatever the
\* argument.
C2_WrongDriverExitsBeforeWrites ==
    (euid = 0 /\ WrongDriver /\ pc \notin { "check_root", "check_driver" }) =>
        /\ pc = "exit"
        /\ exit_code = 1
        /\ exc = "none"
        /\ ~parsed
        /\ gov_calls = 0
        /\ FilesUntouched

C2_Witness ==
    /\ euid = 0
    /\ ~driver_file.exists
    /\ pc = "exit"
    /\ Len(argv) = 1
    /\ \E c \in Cores : epp0[c].exists /\ epp0[c].data # argv[1] \o "\n"

\* C3: a process that is not root ends with status 1 without ever reading the
\* driver file, parsing the arguments or writing a governor or EPP file.
C3_NotRootExitsFirst ==
    (euid # 0 /\ pc # "check_root") =>
        /\ pc = "exit"
        /\ exit_code = 1
        /\ exc = "none"
        /\ driver_reads = 0
        /\ ~parsed
        /\ gov_calls = 0
        /\ FilesUntouched

C3_Witness ==
    /\ euid # 0
    /\ pc = "exit"
    /\ ~WrongDriver
    /\ Len(argv) = 1
    /\ argv[1] \in Range(EPP_STATE_LIST)
    /\ \E c \in Cores : epp0[c].exists

\* C4: with only a Battery entry whose status is Discharging and no Mains
\* entry, check_charging returns false.
C4_BatteryOnlyProbeIsFalse ==
    (charging # "unset" /\ power_supply = { Battery("BAT0", "Discharging\n") }) =>
        charging = "False"

\* C6: as root with the right driver and no positional argument, the process
\* prints the error that lists the five EPP values, ends with a non-zero
\* status and never enters set_epp: no probe, no governor call, no write.
C6_NoArgumentListsChoices ==
    (euid = 0 /\ ~WrongDriver /\ Len(argv) = 0
        /\ pc \notin { "check_root", "check_driver", "parse_args", "main" }) =>
        /\ pc = "exit"
        /\ exit_code # 0
        /\ exit_code \in 1 .. 255
        /\ stdout = << std_err("No epp_state value provided. Provide one of the options from this list: ")
                          \o std_info("default, performance, balance_performance, balance_power, power") >>
        /\ charging = "unset"
        /\ gov_calls = 0
        /\ FilesUntouched

C6_Witness ==
    /\ euid = 0
    /\ ~WrongDriver
    /\ Len(argv) = 0
    /\ pc = "exit"
    /\ \E c \in Cores : epp0[c].exists
    /\ gov0[0].exists /\ gov0[0].data # "powersave\n"

\* C8: set_epp called with performance or balance_performance while the
\* supplies are a discharging battery and no online mains prints the advisory
\* warning first, before any governor or EPP write, and still goes on to
\* write; for the other three values it prints no warning.
C8_WarnsOnBattery ==
    /\ (PastProbe /\ OnBattery /\ epp_state_value \in PerformanceStates) =>
           (Len(stdout) >= 1 /\ stdout[1] = BatteryWarning)
    /\ (PastProbe /\ epp_state_value \notin PerformanceStates) =>
           BatteryWarning \notin Range(stdout)

\* C9: a run of set_epp calls set_governor exactly once, for every value and
\* every probe result; every governor write precedes every EPP write, and
\* each loop writes its cores in increasing index order.
C9_GovernorOnceBeforeEpp ==
    /\ gov_calls <= 1
    /\ (pc \in { "gov_loop", "epp_loop" }) => gov_calls = 1
    /\ (pc = "exit" /\ PastProbe) => gov_calls = 1
    /\ \A i \in 1 .. Len(writes) :
           /\ writes[i].op = "epp" => gov_calls = 1 /\ pc \in { "epp_loop", "exit" }
           /\ \A j \in (i + 1) .. Len(writes) :
                  /\ ~(writes[i].op = "epp" /\ writes[j].op = "governor")
                  /\ writes[i].op = writes[j].op => writes[i].cpu < writes[j].cpu

C9_Witness ==
    /\ pc = "exit"
    /\ exit_code = 0
    /\ epp_state_value = "performance"
    /\ Cardinality({ i \in 1 .. Len(writes) : writes[i].op = "governor" }) >= 2
    /\ Cardinality({ i \in 1 .. Len(writes) : writes[i].op = "epp" }) >= 2

\* C10: when the write to core k's EPP file fails, the process ends there
\* with the error: it is the last write, every core below k that has the
\* file holds the new value, and every core above k is as it was, its write
\* never attempted.
C10_FailedWriteAborts ==
    \A i \in 1 .. Len(writes) :
        (writes[i].op = "epp" /\ ~writes[i].ok) =>
            /\ i = Len(writes)
            /\ pc = "exit"
            /\ exc = "OSError"
            /\ exit_code # 0
            /\ \A c \in Cores :
                   /\ (c < writes[i].cpu /\ epp0[c].exists) =>
                          epp_files[c].data = argv[1] \o "\n"
                   /\ (c < writes[i].cpu /\ ~epp0[c].exists) => ~epp_files[c].exists
                   /\ c > writes[i].cpu => epp_files[c] = epp0[c]

C10_Witness ==
    /\ pc = "exit"
    /\ exc = "OSError"
    /\ Len(writes) >= 2
    /\ writes[Len(writes)] = [op |-> "epp", cpu |-> 1, call |-> 1, ok |-> FALSE]
    /\ epp0[0].exists /\ epp_files[0] # epp0[0]
    /\ epp0[2].exists /\ epp_files[2] = epp0[2]

\* the governor files as the latest call of set_governor found them
AtLastCall == gov_at_call[Len(gov_at_call)]

ReadsPowersave(f) == f.exists /\ f.data = "powersave\n"

\* C5: a call of set_governor that finds core 0's governor file reading
\* powersave writes no governor file; a second call in a row writes nothing
\* and leaves every governor file as the first call left it.
C5_GovernorIdempotent ==
    /\ \A i \in 1 .. Len(writes) : ~ReadsPowersave(gov_at_call[writes[i].call][0])
    /\ \A i \in 1 .. Len(writes) : writes[i].call = 1
    /\ gov_calls >= 2 => governor_files = gov_at_call[2]

C5_Witness ==
    /\ pc = "harness"
    /\ gov_calls = 2
    /\ Len(writes) >= 2
    /\ \E c \in Cores : gov0[c] # governor_files[c]

\* C7 as stated: after set_governor returns with core 0's governor file
\* present, every core that has a governor file reads powersave.
C7_EveryCorePowersave ==
    (pc = "harness" /\ gov_calls >= 1 /\ governor_files[0].exists) =>
        \A c \in Cores : governor_files[c].exists => governor_files[c].data = "powersave\n"

\* C7 as amended: after set_governor returns, every core that has a governor
\* file reads powersave provided core 0's file was present and did not already
\* read powersave; when it already did, no governor file was changed.
C7_EveryCorePowersaveUnlessCore0Set ==
    (pc = "harness" /\ gov_calls >= 1) =>
        /\ (AtLastCall[0].exists /\ ~ReadsPowersave(AtLastCall[0])) =>
               \A c \in Cores :
                   governor_files[c].exists => governor_files[c].data = "powersave\n"
        /\ ReadsPowersave(AtLastCall[0]) => governor_files = AtLastCall

C7_Witness ==
    /\ pc = "harness"
    /\ gov_calls = 1
    /\ gov0[0].exists /\ gov0[0].data = "performance\n"
    /\ \E c \in Cores : ~gov0[c].exists
    /\ \E c \in Cores \ { 0 } : gov0[c].exists /\ gov0[c] # governor_files[c]

====
